---- MODULE Spec2Model ----
(***************************************************************************)
(* Intub front end: the assessment history hook (useAssessmentHistory),    *)
(* and the App component that drives it (handleAnalyze, handleReset,       *)
(* handleSelectHistoryItem, the history sidebar).                          *)
(*                                                                         *)
(* Six specifications:                                                     *)
(*   Spec       - the App: one browser tab, the user's clicks, the fetch   *)
(*                and the thumbnail promise of handleAnalyze settling, the *)
(*                page being reloaded.  handleAnalyze is memoised on       *)
(*                [images] only, so the addAssessment it calls is the one  *)
(*                of the render in which images last changed.              *)
(*   SpecStore  - the hook alone, driven by a caller that always calls the *)
(*                callbacks of the latest render, from an empty store, all *)
(*                within one reading of the clock.                         *)
(*   SpecView   - the pure functions of the view, each applied to a call   *)
(*                drawn from bounded inputs: getAllRecommendations,        *)
(*                getExplanation, formatRelativeTime, the crop that        *)
(*                createThumbnail draws, getResultsText and the            *)
(*                Recommendations section of ResultsDisplay.               *)
(*   SpecClock  - the hook alone with a wall clock that can be set, in     *)
(*                either direction, between two calls.                     *)
(*   SpecFlight - the App within one session and one reading of the clock, *)
(*                with room for a further analysis.                        *)
(*   SpecLive   - one session under weak fairness of the response to a     *)
(*                request and of the settling of a thumbnail derivation.   *)
(***************************************************************************)
EXTENDS Integers, Sequences, FiniteSets, TLC

\* ------------------------------------------------------------------ bounds
MaxTime     == 2      \* Date.now() ranges over 1..MaxTime
MaxImages   == 1      \* images selected at once
MaxAnalyses == 1      \* analyses submitted in one run of Spec

\* --------------------------------------------------------- program constants
MAX_HISTORY_ITEMS == 10

\* ------------------------------------------------------------------ values
Undefined == "undefined"              \* the JavaScript value undefined
NoError   == "null"                   \* error === null
Null      == [tag |-> "null"]         \* result === null, viewingHistory === null

Min(a, b) == IF a < b THEN a ELSE b

\* A JavaScript / JSON value that is an array of items, and one that is null.
Arr(s) == [type |-> "array", items |-> s]
JNull  == [type |-> "null", items |-> <<>>]

\* Sample outputs of Math.random().toString(36).substr(2, 9).
Rands == {"k3x9", "q7m2"}

\* Sample files the user can pick.
Files == {"f1"}

\* Sample responses of POST /analyze: the scenario of the README, and one the
\* producer got wrong (score out of range, category not matching).
R1 == [score |-> 68, risk_category |-> "Difficult",
       concerns |-> <<"Limited neck extension observed">>, images_analyzed |-> 3]
R2 == [score |-> 150, risk_category |-> "Easy",
       concerns |-> <<>>, images_analyzed |-> 1]
Results == {R1, R2}

\* Failures of the request, as handleAnalyze reports them.
ConnectError == "Unable to connect to the server. Please ensure the backend is running."
StatusError  == "Analysis failed (500)"
BodyError    == "Unexpected end of JSON input"
FetchErrors  == {ConnectError, StatusError, BodyError}

\* The data URL createThumbnail resolves with for a file.
ThumbnailOf(file) == IF file = "f1" THEN "data:image/jpeg;f1" ELSE "data:image/jpeg;f2"

\* item.thumbnail: undefined when the object has no such key.
Thumbnail(item) == IF "thumbnail" \in DOMAIN item THEN item.thumbnail ELSE Undefined

\* `${Date.now()}-${Math.random().toString(36).substr(2, 9)}`: the pair
\* determines the string and the string the pair.
MakeId(t, rnd) == <<t, rnd>>

\* Mutant of NewItem: the score is brought into 1..100.
NewItem_Clamped(t, rnd, res, thumb) ==
  [id |-> MakeId(t, rnd), timestamp |-> t,
   score |-> IF res.score > 100 THEN 100 ELSE IF res.score < 1 THEN 1 ELSE res.score,
   risk_category |-> res.risk_category, concerns |-> res.concerns,
   images_analyzed |-> res.images_analyzed, thumbnail |-> thumb]

\* The item addAssessment builds. Its two calls of Date.now(), one statement
\* apart, are taken to return the same reading t.
NewItem(t, rnd, res, thumb) ==
  [id |-> MakeId(t, rnd), timestamp |-> t, score |-> res.score,
   risk_category |-> res.risk_category, concerns |-> res.concerns,
   images_analyzed |-> res.images_analyzed, thumbnail |-> thumb]

\* Array.prototype.slice(0, n)
Slice(s, n) == SubSeq(s, 1, Min(n, Len(s)))

\* Mutants of UpdatedHistory: the slice forgotten; the new item put last.
UpdatedHistory_NoSlice(item, h) == <<item>> \o h
UpdatedHistory_Append(item, h) == Slice(h \o <<item>>, MAX_HISTORY_ITEMS)

\* Mutant of UpdatedHistory: the items kept are stamped anew with the time of
\* the new item.
UpdatedHistory_Restamp(item, h) ==
  Slice(<<item>> \o [i \in 1..Len(h) |-> [h[i] EXCEPT !.timestamp = item.timestamp]],
        MAX_HISTORY_ITEMS)

\* [newItem, ...history].slice(0, MAX_HISTORY_ITEMS)
UpdatedHistory(item, h) == Slice(<<item>> \o h, MAX_HISTORY_ITEMS)

\* Mutant of FilterOut: only the first match goes (findIndex and splice).
RECURSIVE FilterOut_First(_, _)
FilterOut_First(h, id) ==
  IF h = <<>> THEN <<>>
  ELSE IF Head(h).id # id THEN <<Head(h)>> \o FilterOut_First(Tail(h), id)
       ELSE Tail(h)

\* history.filter((item) => item.id !== id)
RECURSIVE FilterOut(_, _)
FilterOut(h, id) ==
  IF h = <<>> THEN <<>>
  ELSE IF Head(h).id # id THEN <<Head(h)>> \o FilterOut(Tail(h), id)
       ELSE FilterOut(Tail(h), id)

\* JSON.stringify of one item: a key whose value is undefined is left out.
StringifyItem(it) ==
  IF Thumbnail(it) = Undefined
  THEN [id |-> it.id, timestamp |-> it.timestamp, score |-> it.score,
        risk_category |-> it.risk_category, concerns |-> it.concerns,
        images_analyzed |-> it.images_analyzed]
  ELSE it

\* JSON.stringify(items): the text is represented by the JSON value it denotes.
JSONStringify(items) == Arr([i \in 1..Len(items) |-> StringifyItem(items[i])])

\* What localStorage holds under STORAGE_KEY.
StorageNull    == [kind |-> "null"]                 \* getItem returns null
StorageEmpty   == [kind |-> "empty"]                \* the empty string
StorageGarbage == [kind |-> "garbage"]              \* text that is no JSON
StorageJSON(v) == [kind |-> "json", value |-> v]    \* text that is JSON for v

\* An item a previous session saved (times before this run's clock).
PastItem ==
  [id |-> MakeId(0, "k3x9"), timestamp |-> 0, score |-> R1.score,
   risk_category |-> R1.risk_category, concerns |-> R1.concerns,
   images_analyzed |-> R1.images_analyzed, thumbnail |-> ThumbnailOf("f1")]

InitialRecords ==
  { StorageNull, StorageEmpty, StorageGarbage, StorageJSON(JNull),
    StorageJSON(Arr(<<PastItem>>)) }

Ids(h) == {h[i].id : i \in 1..Len(h)}

VARIABLES
  now,            \* Date.now()
  storage,        \* localStorage[STORAGE_KEY]
  history,        \* useAssessmentHistory: the history state
  mounted,        \* the App is mounted (the load effect has run)
  crashed,        \* a render threw: React has unmounted the tree
  images,         \* App: images
  result,         \* App: result
  isLoading,      \* App: isLoading
  error,          \* App: error
  viewingHistory, \* App: viewingHistory
  addHistory,     \* the history that handleAnalyze's addAssessment closes over
  pc,             \* handleAnalyze: "idle", "fetch" (awaiting fetch), "thumb"
  runImages,      \* the running handleAnalyze: its images
  runHistory,     \* the running handleAnalyze: the history of its addAssessment
  data,           \* the running handleAnalyze: the response
                  \* (the three are reset when the invocation returns)
  analyses,       \* analyses submitted so far
  removed,        \* ids of the items removed so far by delete, clear or eviction
  saved,          \* the items add has saved and that are still there, each with
                  \* the result add was given
  resetInFlight,  \* handleReset ran since the running analysis was submitted
  submitted,      \* what the App showed when the awaited request was submitted,
                  \* as long as the user has done nothing since (Null otherwise)
  last            \* the last operation on the store, and how it went

appVars   == <<mounted, crashed, images, result, isLoading, error, viewingHistory,
               addHistory, pc, runImages, runHistory, data, analyses, removed, saved,
               resetInFlight, submitted>>
storeVars == <<now, storage, history>>
vars      == <<now, storage, history, mounted, crashed, images, result, isLoading,
               error, viewingHistory, addHistory, pc, runImages, runHistory, data,
               analyses, removed, saved, resetInFlight, submitted, last>>

\* ------------------------------------------------------------- the hook

\* Mutant of LoadEffect: JSON.parse outside the try.
LoadEffect_NoCatch(st, h) ==
  IF st.kind \in {"null", "empty"} THEN [history |-> h, threw |-> FALSE]
  ELSE IF st.kind = "garbage" THEN [history |-> h, threw |-> TRUE]
  ELSE [history |-> st.value, threw |-> FALSE]

\* The load effect: what history is after it, and whether it threw.
\* getItem; if (stored) { JSON.parse; setHistory }; catch: console.error.
LoadEffect(st, h) ==
  IF st.kind \in {"null", "empty"} THEN [history |-> h, threw |-> FALSE]
  ELSE IF st.kind = "garbage" THEN [history |-> h, threw |-> FALSE]
  ELSE [history |-> st.value, threw |-> FALSE]

\* saveHistory: whether the call throws to its caller (the catch swallows a
\* throw of setItem).
SaveThrows(writeOk) == FALSE

\* Mutant of SaveHistory: setHistory before setItem, so that the state is
\* set whether or not the write goes through.
SaveHistory_SetFirst(items, writeOk) ==
  /\ history' = Arr(items)
  /\ IF writeOk THEN storage' = StorageJSON(JSONStringify(items))
     ELSE UNCHANGED storage

\* saveHistory(items): setItem, then setHistory; a throw of setItem skips both.
SaveHistory(items, writeOk) ==
  IF writeOk
  THEN /\ storage' = StorageJSON(JSONStringify(items))
       /\ history' = Arr(items)
  ELSE UNCHANGED <<storage, history>>

\* addAssessment(res, thumb) of a render whose history was h.
\* t is what Date.now() returns, rnd what Math.random() gives.
AddAssessment(h, t, rnd, res, thumb, writeOk) ==
  SaveHistory(UpdatedHistory(NewItem(t, rnd, res, thumb), h), writeOk)

\* deleteAssessment(id) of a render whose history was h.
DeleteAssessment(h, id, writeOk) == SaveHistory(FilterOut(h, id), writeOk)

\* Mutant of ClearHistory: the state is emptied, the record is left.
ClearHistory_MemoryOnly(writeOk) == history' = Arr(<<>>) /\ UNCHANGED storage

\* clearHistory()
ClearHistory(writeOk) == SaveHistory(<<>>, writeOk)

\* ------------------------------------------------------------- SpecStore

InitStore ==
  /\ now = 1
  /\ storage = StorageNull
  /\ history = Arr(<<>>)
  /\ mounted = TRUE
  /\ crashed = FALSE
  /\ images = <<>>
  /\ result = Null
  /\ isLoading = FALSE
  /\ error = NoError
  /\ viewingHistory = Null
  /\ addHistory = <<>>
  /\ pc = "idle"
  /\ runImages = <<>>
  /\ runHistory = <<>>
  /\ data = Null
  /\ analyses = 0
  /\ removed = {}
  /\ saved = {}
  /\ resetInFlight = FALSE
  /\ submitted = Null
  /\ last = [op |-> "init"]

\* Inputs of the hook in SpecStore.
StoreResults == {R1}
StoreThumbs  == {ThumbnailOf("f1")}

\* An id no add has assigned.
AbsentId == MakeId(0, "none")

\* SpecStore is the burst: every call falls within one reading of the clock,
\* so that the ids differ by their random part alone.
StoreAddOp(rnd, res, thumb, writeOk) ==
  /\ AddAssessment(history.items, now, rnd, res, thumb, writeOk)
  /\ last' = [op |-> "add", ok |-> writeOk, threw |-> SaveThrows(writeOk),
              ret |-> IF SaveThrows(writeOk) THEN <<>> ELSE MakeId(now, rnd),
              full |-> (Len(history.items) >= MAX_HISTORY_ITEMS)]
  /\ UNCHANGED <<now, appVars>>

StoreAdd ==
  \E rnd \in Rands, res \in StoreResults, thumb \in StoreThumbs, writeOk \in BOOLEAN :
    StoreAddOp(rnd, res, thumb, writeOk)

StoreDeleteOp(id, writeOk) ==
  /\ DeleteAssessment(history.items, id, writeOk)
  /\ last' = [op |-> "delete", ok |-> writeOk, threw |-> SaveThrows(writeOk),
              hit |-> (id \in Ids(history.items))]
  /\ UNCHANGED <<now, appVars>>

StoreDelete ==
  \E id \in Ids(history.items) \cup {AbsentId}, writeOk \in BOOLEAN :
    StoreDeleteOp(id, writeOk)

StoreClearOp(writeOk) ==
  /\ ClearHistory(writeOk)
  /\ last' = [op |-> "clear", ok |-> writeOk, threw |-> SaveThrows(writeOk),
              had |-> (history.items # <<>>)]
  /\ UNCHANGED <<now, appVars>>

StoreClear == \E writeOk \in BOOLEAN : StoreClearOp(writeOk)

\* A new session on the same storage: useState([]) and then the load effect.
StoreReload ==
  /\ history' = LoadEffect(storage, Arr(<<>>)).history
  /\ last' = [op |-> "load", threw |-> LoadEffect(storage, Arr(<<>>)).threw,
              after |-> last.op,
              afterOk |-> (last.op = "clear" /\ last.ok),
              afterHad |-> (last.op = "clear" /\ last.had)]
  /\ UNCHANGED <<now, storage, appVars>>

NextStore == StoreAdd \/ StoreDelete \/ StoreClear \/ StoreReload

SpecStore == InitStore /\ [][NextStore]_vars

\* ------------------------------------------------------------------ Spec

\* HistorySidebar renders history.length and history.map: a history that is
\* no array makes the render throw, and nothing catches it.
RenderCrashes(h) == h.type # "array"

\* The ids of the items that were in the collection h and are not in h2.
Dropped(h, h2) == Ids(h) \ Ids(h2)

\* An item as add saved it, with the result add was given; the items of S
\* that are in the collection h (an item is the same before and after the
\* record has been written and read back).
SavedAs(item, res) == [item |-> StringifyItem(item), r |-> res]
StillThere(S, h) ==
  {s \in S : \E i \in 1..Len(h) : StringifyItem(h[i]) = s.item}

\* Mutant of ResultOf: the concerns are not carried over.
ResultOf_NoConcerns(item) ==
  [score |-> item.score, risk_category |-> item.risk_category,
   concerns |-> <<>>, images_analyzed |-> item.images_analyzed]

\* The AnalysisResult handleSelectHistoryItem builds from an item.
ResultOf(item) ==
  [score |-> item.score, risk_category |-> item.risk_category,
   concerns |-> item.concerns, images_analyzed |-> item.images_analyzed]

Init ==
  /\ now = 1
  /\ storage \in InitialRecords
  /\ history = Arr(<<>>)
  /\ mounted = FALSE
  /\ crashed = FALSE
  /\ images = <<>>
  /\ result = Null
  /\ isLoading = FALSE
  /\ error = NoError
  /\ viewingHistory = Null
  /\ addHistory = <<>>
  /\ pc = "idle"
  /\ runImages = <<>>
  /\ runHistory = <<>>
  /\ data = Null
  /\ analyses = 0
  /\ removed = {}
  /\ saved = {}
  /\ resetInFlight = FALSE
  /\ submitted = Null
  /\ last = [op |-> "init"]

\* The first render (history = [], which handleAnalyze's addAssessment keeps)
\* and the load effect after it.
FirstRender ==
  /\ history' = LoadEffect(storage, Arr(<<>>)).history
  /\ crashed' = RenderCrashes(history')
  /\ mounted' = TRUE
  /\ images' = <<>>
  /\ result' = Null
  /\ isLoading' = FALSE
  /\ error' = NoError
  /\ viewingHistory' = Null
  /\ addHistory' = <<>>
  /\ pc' = "idle"
  /\ runImages' = <<>>
  /\ runHistory' = <<>>
  /\ data' = Null
  /\ resetInFlight' = FALSE
  /\ submitted' = Null
  /\ saved' = StillThere(saved, history'.items)
  /\ UNCHANGED <<now, storage, analyses, removed>>

Mount ==
  /\ ~mounted
  /\ FirstRender
  /\ last' = [op |-> "mount", threw |-> LoadEffect(storage, Arr(<<>>)).threw]

\* The page is loaded again: a new session on the same storage.
Reload ==
  /\ mounted
  /\ FirstRender
  /\ last' = [op |-> "reload", threw |-> LoadEffect(storage, Arr(<<>>)).threw]

Usable == mounted /\ ~crashed

\* What the App shows and holds: its state, the history and the record.
Shown ==
  [images |-> images, result |-> result, error |-> error, isLoading |-> isLoading,
   viewingHistory |-> viewingHistory, history |-> history, storage |-> storage]

\* Mutant of UploadShown: the upload section is rendered under the spinner
\* as well.
UploadShown_IgnoresLoading == result = Null

\* ImageUpload is rendered when there is neither a spinner nor a result.
UploadShown == ~isLoading /\ result = Null

\* The Analyze button is rendered inside the upload section once an image is
\* selected.
AnalyzeShown == UploadShown /\ Len(images) > 0

\* handleFiles -> onImagesChange([...images, ...newImages]). The render that
\* follows memoises handleAnalyze anew, with that render's addAssessment.
Upload ==
  \E f \in Files :
    /\ Usable /\ UploadShown
    /\ Len(images) < MaxImages
    /\ images' = Append(images, f)
    /\ addHistory' = history.items
    /\ UNCHANGED last
    /\ UNCHANGED <<storeVars, mounted, crashed, result, isLoading, error,
                   viewingHistory, pc, runImages, runHistory, data, analyses,
                   removed, saved, resetInFlight, submitted>>

\* removeImage -> onImagesChange(images.filter(...))
RemoveImage ==
  \E i \in 1..Len(images) :
    /\ Usable /\ UploadShown
    /\ images' = SubSeq(images, 1, i - 1) \o SubSeq(images, i + 1, Len(images))
    /\ addHistory' = history.items
    /\ UNCHANGED last
    /\ UNCHANGED <<storeVars, mounted, crashed, result, isLoading, error,
                   viewingHistory, pc, runImages, runHistory, data, analyses,
                   removed, saved, resetInFlight, submitted>>

\* handleAnalyze up to its first await. The button is rendered when images
\* are selected and ImageUpload is shown.
AnalyzeOp ==
  /\ Usable /\ AnalyzeShown
  /\ IF Len(images) = 0
     THEN /\ error' = "Please upload at least one image"
          /\ UNCHANGED <<isLoading, pc, runImages, runHistory, analyses,
                         resetInFlight, submitted>>
     ELSE /\ isLoading' = TRUE
          /\ error' = NoError
          /\ pc' = "fetch"
          /\ runImages' = images
          /\ runHistory' = addHistory
          /\ analyses' = analyses + 1
          /\ resetInFlight' = FALSE
          /\ submitted' = Shown
  /\ UNCHANGED last
  /\ UNCHANGED <<storeVars, mounted, crashed, images, result, viewingHistory,
                 addHistory, data, removed, saved>>

Analyze ==
  /\ analyses < MaxAnalyses
  /\ AnalyzeOp

\* fetch resolves with a 2xx response whose body parses: setResult(data), and
\* createThumbnail(images[0].file) is awaited.
FetchOk ==
  \E d \in Results :
    /\ Usable /\ pc = "fetch"
    /\ result' = d
    /\ data' = d
    /\ pc' = "thumb"
    /\ submitted' = Null
    /\ UNCHANGED last
    /\ UNCHANGED <<storeVars, mounted, crashed, images, isLoading, error,
                   viewingHistory, addHistory, runImages, runHistory, analyses,
                   removed, saved, resetInFlight>>

\* Mutant of FetchFail: the failure also drops the selection (a reset in the
\* catch).
FetchFail_DropsInput ==
  \E msg \in FetchErrors :
    /\ Usable /\ pc = "fetch"
    /\ error' = msg
    /\ images' = <<>>
    /\ isLoading' = FALSE
    /\ pc' = "idle"
    /\ runImages' = <<>>
    /\ runHistory' = <<>>
    /\ data' = Null
    /\ resetInFlight' = FALSE
    /\ submitted' = Null
    /\ UNCHANGED <<storeVars, mounted, crashed, result, viewingHistory,
                   addHistory, analyses, removed, saved, last>>

\* Mutant of FetchFail: the catch without the finally.
FetchFail_NoFinally ==
  \E msg \in FetchErrors :
    /\ Usable /\ pc = "fetch"
    /\ error' = msg
    /\ pc' = "idle"
    /\ runImages' = <<>>
    /\ runHistory' = <<>>
    /\ data' = Null
    /\ resetInFlight' = FALSE
    /\ submitted' = Null
    /\ UNCHANGED <<storeVars, mounted, crashed, images, result, isLoading,
                   viewingHistory, addHistory, analyses, removed, saved, last>>

\* fetch rejects, answers with a status that is not 2xx, or the body does not
\* parse: the outer catch and the finally.
FetchFail ==
  \E msg \in FetchErrors :
    /\ Usable /\ pc = "fetch"
    /\ error' = msg
    /\ isLoading' = FALSE
    /\ pc' = "idle"
    /\ runImages' = <<>>
    /\ runHistory' = <<>>
    /\ data' = Null
    /\ resetInFlight' = FALSE
    /\ submitted' = Null
    /\ UNCHANGED <<storeVars, mounted, crashed, images, result, viewingHistory,
                   addHistory, analyses, removed, saved, last>>

\* The rest of handleAnalyze once createThumbnail has settled: addAssessment
\* (the one handleAnalyze closed over) and the finally.
Settle(thumb, rnd, writeOk) ==
  /\ Usable /\ pc = "thumb"
  /\ AddAssessment(runHistory, now, rnd, data, thumb, writeOk)
  /\ removed' = removed \cup Dropped(history.items, history'.items)
  /\ saved' = StillThere(saved \cup (IF writeOk THEN {SavedAs(NewItem(now, rnd, data, thumb), data)}
                                    ELSE {}),
                         history'.items)
  /\ isLoading' = FALSE
  /\ pc' = "idle"
  /\ runImages' = <<>>
  /\ runHistory' = <<>>
  /\ data' = Null
  /\ resetInFlight' = FALSE
  /\ submitted' = Null
  /\ UNCHANGED <<now, mounted, crashed, images, result, error, viewingHistory,
                 addHistory, analyses>>

ThumbResolveOp(rnd, writeOk) ==
  /\ Settle(ThumbnailOf(runImages[1]), rnd, writeOk)
  /\ last' = [op |-> "thumbResolve", ok |-> writeOk]

ThumbResolve == \E rnd \in Rands, writeOk \in BOOLEAN : ThumbResolveOp(rnd, writeOk)

\* Mutant of ThumbRejectOp: no inner try, the rejection reaches the outer
\* catch and nothing is saved.
ThumbRejectOp_Abort(rnd, writeOk) ==
  /\ Usable /\ pc = "thumb"
  /\ error' = "An unexpected error occurred"
  /\ isLoading' = FALSE
  /\ pc' = "idle"
  /\ runImages' = <<>>
  /\ runHistory' = <<>>
  /\ data' = Null
  /\ resetInFlight' = FALSE
  /\ submitted' = Null
  /\ last' = [op |-> "thumbReject", ok |-> writeOk]
  /\ UNCHANGED <<storeVars, mounted, crashed, images, result, viewingHistory,
                 addHistory, analyses, removed, saved>>

ThumbRejectOp(rnd, writeOk) ==
  /\ Settle(Undefined, rnd, writeOk)
  /\ last' = [op |-> "thumbReject", ok |-> writeOk]

ThumbReject == \E rnd \in Rands, writeOk \in BOOLEAN : ThumbRejectOp(rnd, writeOk)

\* handleReset: the header is always there to click.
Reset ==
  /\ Usable
  /\ images' = <<>>
  /\ result' = Null
  /\ error' = NoError
  /\ viewingHistory' = Null
  /\ addHistory' = history.items
  /\ resetInFlight' = (resetInFlight \/ pc = "fetch")
  /\ submitted' = Null
  /\ UNCHANGED last
  /\ UNCHANGED <<storeVars, mounted, crashed, isLoading, pc, runImages,
                 runHistory, data, analyses, removed, saved>>

\* handleSelectHistoryItem(item), item being one the sidebar lists.
SelectHistoryItem ==
  \E i \in 1..Len(history.items) :
    /\ Usable
    /\ viewingHistory' = history.items[i]
    /\ result' = ResultOf(history.items[i])
    /\ images' = <<>>
    /\ error' = NoError
    /\ addHistory' = history.items
    /\ submitted' = Null
    /\ UNCHANGED last
    /\ UNCHANGED <<storeVars, mounted, crashed, isLoading, pc, runImages,
                   runHistory, data, analyses, removed, saved, resetInFlight>>

\* The sidebar's delete button of item i: deleteAssessment of this render.
DeleteItemOp(i, writeOk) ==
  /\ Usable
  /\ DeleteAssessment(history.items, history.items[i].id, writeOk)
  /\ removed' = removed \cup Dropped(history.items, history'.items)
  /\ saved' = StillThere(saved, history'.items)
  /\ last' = [op |-> "delete", ok |-> writeOk]
  /\ submitted' = Null
  /\ UNCHANGED <<now, mounted, crashed, images, result, isLoading, error,
                 viewingHistory, addHistory, pc, runImages, runHistory, data,
                 analyses, resetInFlight>>

DeleteItem ==
  \E i \in 1..Len(history.items), writeOk \in BOOLEAN : DeleteItemOp(i, writeOk)

\* The sidebar's Clear History button, rendered when the history has items.
ClearAll ==
  \E writeOk \in BOOLEAN :
    /\ Usable
    /\ history.items # <<>>
    /\ ClearHistory(writeOk)
    /\ removed' = removed \cup Dropped(history.items, history'.items)
    /\ saved' = StillThere(saved, history'.items)
    /\ last' = [op |-> "clear", ok |-> writeOk]
    /\ submitted' = Null
    /\ UNCHANGED <<now, mounted, crashed, images, result, isLoading, error,
                   viewingHistory, addHistory, pc, runImages, runHistory, data,
                   analyses, resetInFlight>>

\* ErrorMessage's onDismiss
DismissError ==
  /\ Usable
  /\ error # NoError
  /\ error' = NoError
  /\ UNCHANGED last
  /\ UNCHANGED <<storeVars, mounted, crashed, images, result, isLoading,
                 viewingHistory, addHistory, pc, runImages, runHistory, data,
                 analyses, removed, saved, resetInFlight, submitted>>

\* A millisecond passes.
Tick ==
  /\ now < MaxTime
  /\ now' = now + 1
  /\ UNCHANGED <<storage, history, appVars, last>>

Next ==
  \/ Mount
  \/ Reload
  \/ Upload
  \/ RemoveImage
  \/ Analyze
  \/ FetchOk
  \/ FetchFail
  \/ ThumbResolve
  \/ ThumbReject
  \/ Reset
  \/ SelectHistoryItem
  \/ DeleteItem
  \/ ClearAll
  \/ DismissError
  \/ Tick

Spec == Init /\ [][Next]_vars

\* ------------------------------------------------------------- SpecFlight
\* The App within one session, with room for a second analysis after (or,
\* were it possible, during) the first: the clock stands still and the
\* session starts on a record of one item.

MaxFlights == 2       \* analyses submitted in SpecFlight

InitFlight ==
  /\ Init
  /\ storage = StorageJSON(Arr(<<PastItem>>))

FlightAnalyze ==
  /\ analyses < MaxFlights
  /\ AnalyzeOp

NextFlight ==
  \/ Mount
  \/ Upload
  \/ FlightAnalyze
  \/ FetchOk
  \/ FetchFail
  \/ ThumbResolve
  \/ ThumbReject
  \/ Reset
  \/ SelectHistoryItem
  \/ DeleteItem
  \/ ClearAll

SpecFlight == InitFlight /\ [][NextFlight]_vars

\* --------------------------------------------------------------- SpecLive
\* One session with the scheduling the runtime gives: a request that was
\* sent is answered or fails, and a thumbnail derivation that was started
\* settles. The user is under no obligation to do anything.

NextLive ==
  \/ Mount
  \/ Upload
  \/ Analyze
  \/ FetchOk
  \/ FetchFail
  \/ ThumbResolve
  \/ ThumbReject
  \/ Reset
  \/ SelectHistoryItem
  \/ DeleteItem
  \/ ClearAll

SpecLive ==
  /\ InitFlight
  /\ [][NextLive]_vars
  /\ WF_vars(FetchOk \/ FetchFail)
  /\ WF_vars(ThumbResolve \/ ThumbReject)

\* ------------------------------------------------------------- SpecView
\* The pure functions the view computes with: a call is drawn (last holds
\* the function and its arguments), the function is applied (last holds the
\* value returned as well). The App's state takes no part.

MaxConcerns == 2      \* length of the concerns array given to compose

\* The JavaScript value undefined where objects are looked up.
UndefinedValue == [tag |-> "undefined"]

\* concernToRecommendations, the own properties of the object literal.
concernToRecommendations ==
  [c \in {"Limited mouth opening", "Restricted neck mobility",
          "High Mallampati score", "Short thyromental distance",
          "Prominent teeth", "Receding mandible", "Facial trauma",
          "Obesity", "Beard"} |->
    CASE c = "Limited mouth opening" ->
           [title |-> "Prepare for Limited Oral Access",
            actions |-> <<"Consider using a video laryngoscope with a narrow blade profile",
                          "Have smaller endotracheal tubes readily available",
                          "Prepare fiberoptic intubation equipment as backup",
                          "Position patient optimally to maximize mouth opening">>,
            priority |-> "high"]
      [] c = "Restricted neck mobility" ->
           [title |-> "Address Neck Movement Limitations",
            actions |-> <<"Avoid excessive head extension maneuvers",
                          "Use video laryngoscopy to reduce need for neck manipulation",
                          "Consider awake fiberoptic intubation if severely restricted",
                          "Have rigid stylet available for tube guidance">>,
            priority |-> "high"]
      [] c = "High Mallampati score" ->
           [title |-> "Manage Limited Pharyngeal Visualization",
            actions |-> <<"Use video laryngoscopy as first-line technique",
                          "Ensure adequate patient positioning (sniffing position)",
                          "Have experienced personnel available",
                          "Prepare supraglottic airway device as backup">>,
            priority |-> "medium"]
      [] c = "Short thyromental distance" ->
           [title |-> "Anticipate Difficult Laryngeal Exposure",
            actions |-> <<"Use video laryngoscope with enhanced visualization",
                          "Consider ramped positioning for better alignment",
                          "Have bougie or stylet readily available",
                          "Prepare for potential need of supraglottic device">>,
            priority |-> "medium"]
      [] c = "Prominent teeth" ->
           [title |-> "Protect Dentition and Ensure Clear View",
            actions |-> <<"Use tooth guards or dampened gauze for protection",
                          "Exercise extreme caution during laryngoscope insertion",
                          "Consider video laryngoscopy to reduce force needed",
                          "Document dental condition before procedure">>,
            priority |-> "medium"]
      [] c = "Receding mandible" ->
           [title |-> "Overcome Anatomical Airway Obstruction",
            actions |-> <<"Use video laryngoscope for improved view",
                          "Optimize head and neck positioning",
                          "Have bougie or introducer ready for tube guidance",
                          "Prepare fiberoptic equipment as alternative approach">>,
            priority |-> "high"]
      [] c = "Facial trauma" ->
           [title |-> "Manage Traumatic Airway Challenges",
            actions |-> <<"Assess for possible cervical spine injury - maintain stabilization",
                          "Anticipate blood and secretions - have suction ready",
                          "Consider awake intubation if airway anatomy distorted",
                          "Have surgical airway equipment immediately available">>,
            priority |-> "high"]
      [] c = "Obesity" ->
           [title |-> "Address Obesity-Related Airway Challenges",
            actions |-> <<"Use ramped positioning to align airway axes",
                          "Ensure adequate preoxygenation (reduced oxygen reserve)",
                          "Have video laryngoscope and shorter handle available",
                          "Prepare for rapid oxygen desaturation - work efficiently">>,
            priority |-> "medium"]
      [] c = "Beard" ->
           [title |-> "Optimize Mask Seal and Airway Access",
            actions |-> <<"Apply water-soluble lubricant to improve mask seal",
                          "Use two-person bag-mask ventilation technique if needed",
                          "Have supraglottic airway device available as backup",
                          "Consider trimming beard if patient condition permits">>,
            priority |-> "low"]]

\* The nine canonical labels.
CanonicalLabels == DOMAIN concernToRecommendations

\* Property names an object literal inherits from Object.prototype.
ObjectPrototypeKeys ==
  {"constructor", "toString", "toLocaleString", "valueOf", "hasOwnProperty",
   "isPrototypeOf", "propertyIsEnumerable", "__proto__"}

\* concernToRecommendations[key]: an own property, else one found on the
\* prototype (a function, or for __proto__ the prototype itself), else
\* undefined.
Lookup(key) ==
  IF key \in DOMAIN concernToRecommendations THEN concernToRecommendations[key]
  ELSE IF key \in ObjectPrototypeKeys THEN [inherited |-> key]
  ELSE UndefinedValue

\* if (v): an object or a function is truthy, undefined is not.
Truthy(v) == v # UndefinedValue

\* Mutant of getGeneralRecommendations: the Moderate branch is missing.
getGeneralRecommendations_TwoBands(riskCategory) ==
  IF riskCategory = "Difficult"
  THEN [title |-> "High-Risk Airway Protocol",
        actions |-> <<"Summon most experienced airway provider available",
                      "Assemble complete difficult airway cart",
                      "Prepare surgical airway equipment and personnel",
                      "Consider awake fiberoptic intubation",
                      "Have team brief on backup plans before starting">>,
        priority |-> "high"]
  ELSE [title |-> "Standard Airway Management",
        actions |-> <<"Follow standard intubation protocols",
                      "Ensure backup equipment is readily available",
                      "Maintain vigilance for unexpected difficulties">>,
        priority |-> "low"]

getGeneralRecommendations(riskCategory) ==
  IF riskCategory = "Difficult"
  THEN [title |-> "High-Risk Airway Protocol",
        actions |-> <<"Summon most experienced airway provider available",
                      "Assemble complete difficult airway cart",
                      "Prepare surgical airway equipment and personnel",
                      "Consider awake fiberoptic intubation",
                      "Have team brief on backup plans before starting">>,
        priority |-> "high"]
  ELSE IF riskCategory = "Moderate"
  THEN [title |-> "Enhanced Airway Preparation",
        actions |-> <<"Have experienced provider present or immediately available",
                      "Prepare video laryngoscope and adjunct equipment",
                      "Ensure supraglottic airway device at bedside",
                      "Discuss backup plan with team before induction">>,
        priority |-> "medium"]
  ELSE [title |-> "Standard Airway Management",
        actions |-> <<"Follow standard intubation protocols",
                      "Ensure backup equipment is readily available",
                      "Maintain vigilance for unexpected difficulties">>,
        priority |-> "low"]

\* concerns.forEach: push what the lookup gives when it is truthy.
RECURSIVE SpecificRecommendations(_)
SpecificRecommendations(concerns) ==
  IF concerns = <<>> THEN <<>>
  ELSE (IF Truthy(Lookup(Head(concerns))) THEN <<Lookup(Head(concerns))>> ELSE <<>>)
       \o SpecificRecommendations(Tail(concerns))

getAllRecommendations(concerns, riskCategory) ==
  <<getGeneralRecommendations(riskCategory)>> \o SpecificRecommendations(concerns)

\* Inputs of compose: the nine labels, strings that are no label (one that
\* differs from a label in case only, what the README's response carries,
\* the empty string) and names of built-in properties.
RiskCategories == {"Easy", "Moderate", "Difficult"}
ConcernStrings ==
  CanonicalLabels \cup
  {"beard", "Limited neck extension observed", "", "constructor", "toString",
   "__proto__"}
ConcernSeqs == UNION {[1..n -> ConcernStrings] : n \in 0..MaxConcerns}

ComposeCalls ==
  {[op |-> "call", fn |-> "compose", concerns |-> cs, riskCategory |-> r] :
     cs \in ConcernSeqs, r \in RiskCategories}

\* ---- getExplanation. Strings that are searched are sequences of
\* characters; the explanations are only compared and stay strings.

MaxFragments == 3     \* fragments a concern given to explain is made of

\* String.prototype.toLowerCase on the letters of the inputs.
UpperToLower ==
  [c \in {"A","B","C","D","E","F","G","H","I","J","K","L","M","N","O","P","Q",
          "R","S","T","U","V","W","X","Y","Z"} |->
    CASE c = "A" -> "a" [] c = "B" -> "b" [] c = "C" -> "c" [] c = "D" -> "d"
      [] c = "E" -> "e" [] c = "F" -> "f" [] c = "G" -> "g" [] c = "H" -> "h"
      [] c = "I" -> "i" [] c = "J" -> "j" [] c = "K" -> "k" [] c = "L" -> "l"
      [] c = "M" -> "m" [] c = "N" -> "n" [] c = "O" -> "o" [] c = "P" -> "p"
      [] c = "Q" -> "q" [] c = "R" -> "r" [] c = "S" -> "s" [] c = "T" -> "t"
      [] c = "U" -> "u" [] c = "V" -> "v" [] c = "W" -> "w" [] c = "X" -> "x"
      [] c = "Y" -> "y" [] c = "Z" -> "z"]

toLowerCase(s) ==
  [i \in 1..Len(s) |-> IF s[i] \in DOMAIN UpperToLower THEN UpperToLower[s[i]] ELSE s[i]]

\* String.prototype.includes
includes(s, k) == \E i \in 0..(Len(s) - Len(k)) : SubSeq(s, i + 1, i + Len(k)) = k

\* Object.entries(CONCERN_EXPLANATIONS): the entries in the order of the
\* object literal.
CONCERN_EXPLANATIONS == <<
  \* "jaw mobility"
  [keyword |-> <<"j", "a", "w", " ", "m", "o", "b", "i", "l", "i", "t", "y">>,
   explanation |-> "Limited ability to open mouth or move jaw forward, making laryngoscope insertion difficult"],
  \* "restricted jaw"
  [keyword |-> <<"r", "e", "s", "t", "r", "i", "c", "t", "e", "d", " ", "j", "a", "w">>,
   explanation |-> "Limited ability to open mouth or move jaw forward, making laryngoscope insertion difficult"],
  \* "mallampati"
  [keyword |-> <<"m", "a", "l", "l", "a", "m", "p", "a", "t", "i">>,
   explanation |-> "Higher Mallampati classification (III-IV) indicates limited visibility of pharyngeal structures, suggesting difficult intubation"],
  \* "incisors"
  [keyword |-> <<"i", "n", "c", "i", "s", "o", "r", "s">>,
   explanation |-> "Large or protruding front teeth can obstruct laryngoscope placement and visualization"],
  \* "prominent upper"
  [keyword |-> <<"p", "r", "o", "m", "i", "n", "e", "n", "t", " ", "u", "p", "p", "e", "r">>,
   explanation |-> "Large or protruding front teeth can obstruct laryngoscope placement and visualization"],
  \* "receding mandible"
  [keyword |-> <<"r", "e", "c", "e", "d", "i", "n", "g", " ", "m", "a", "n", "d", "i", "b", "l", "e">>,
   explanation |-> "Small or set-back lower jaw reduces space for airway manipulation"],
  \* "mandible"
  [keyword |-> <<"m", "a", "n", "d", "i", "b", "l", "e">>,
   explanation |-> "Small or set-back lower jaw reduces space for airway manipulation"],
  \* "neck extension"
  [keyword |-> <<"n", "e", "c", "k", " ", "e", "x", "t", "e", "n", "s", "i", "o", "n">>,
   explanation |-> "Reduced ability to tilt head back limits optimal positioning for intubation"],
  \* "limited neck"
  [keyword |-> <<"l", "i", "m", "i", "t", "e", "d", " ", "n", "e", "c", "k">>,
   explanation |-> "Reduced ability to tilt head back limits optimal positioning for intubation"],
  \* "thyromental"
  [keyword |-> <<"t", "h", "y", "r", "o", "m", "e", "n", "t", "a", "l">>,
   explanation |-> "Short distance between chin and neck indicates less space for airway access"],
  \* "body habitus"
  [keyword |-> <<"b", "o", "d", "y", " ", "h", "a", "b", "i", "t", "u", "s">>,
   explanation |-> "Physical characteristics suggesting difficult airway access (e.g., obesity, short neck)"],
  \* "anatomical"
  [keyword |-> <<"a", "n", "a", "t", "o", "m", "i", "c", "a", "l">>,
   explanation |-> "Unusual structural features that may complicate standard intubation techniques"],
  \* "facial trauma"
  [keyword |-> <<"f", "a", "c", "i", "a", "l", " ", "t", "r", "a", "u", "m", "a">>,
   explanation |-> "Injury to face or jaw may obstruct airway access and require alternative techniques"],
  \* "airway swelling"
  [keyword |-> <<"a", "i", "r", "w", "a", "y", " ", "s", "w", "e", "l", "l", "i", "n", "g">>,
   explanation |-> "Swollen tissue can rapidly obstruct the airway and complicate visualization"],
  \* "cervical spine"
  [keyword |-> <<"c", "e", "r", "v", "i", "c", "a", "l", " ", "s", "p", "i", "n", "e">>,
   explanation |-> "Limited or dangerous neck movement requires special positioning and equipment"],
  \* "beard"
  [keyword |-> <<"b", "e", "a", "r", "d">>,
   explanation |-> "Facial hair can prevent proper mask seal for bag-mask ventilation backup"]
>>

\* The default explanation for unrecognized concerns.
FallbackExplanation ==
  "This finding may affect airway management. Consult clinical guidelines for specific recommendations."

\* Mutant of FindEntry: the table is scanned from its end.
RECURSIVE FindEntry_FromEnd(_, _)
FindEntry_FromEnd(lowerConcern, i) ==
  LET j == Len(CONCERN_EXPLANATIONS) + 1 - i
  IN IF j < 1 THEN 0
     ELSE IF includes(lowerConcern, toLowerCase(CONCERN_EXPLANATIONS[j].keyword)) THEN j
     ELSE FindEntry_FromEnd(lowerConcern, i + 1)

\* The for loop from entry i on: the index of the entry it returns at, 0
\* when it runs to the end.
RECURSIVE FindEntry(_, _)
FindEntry(lowerConcern, i) ==
  IF i > Len(CONCERN_EXPLANATIONS) THEN 0
  ELSE IF includes(lowerConcern, toLowerCase(CONCERN_EXPLANATIONS[i].keyword)) THEN i
  ELSE FindEntry(lowerConcern, i + 1)

\* Mutant of getExplanation: the concern is not lower-cased.
getExplanation_CaseSensitive(concern) ==
  LET i == FindEntry(concern, 1)
  IN [keyword |-> IF i = 0 THEN <<>> ELSE CONCERN_EXPLANATIONS[i].keyword,
      value |-> IF i = 0 THEN FallbackExplanation ELSE CONCERN_EXPLANATIONS[i].explanation]

\* getExplanation(concern): the value returned, and the keyword the loop
\* returned at (none when it is the default).
getExplanation(concern) ==
  LET i == FindEntry(toLowerCase(concern), 1)
  IN [keyword |-> IF i = 0 THEN <<>> ELSE CONCERN_EXPLANATIONS[i].keyword,
      value |-> IF i = 0 THEN FallbackExplanation ELSE CONCERN_EXPLANATIONS[i].explanation]

\* Inputs of explain: up to MaxFragments of these fragments, one after the
\* other ("Limited neck", " extension", " observed" give the README's concern).
Fragments == {
  <<"L", "i", "m", "i", "t", "e", "d", " ", "n", "e", "c", "k">>,   \* "Limited neck"
  <<" ", "e", "x", "t", "e", "n", "s", "i", "o", "n">>,   \* " extension"
  <<" ", "o", "b", "s", "e", "r", "v", "e", "d">>,   \* " observed"
  <<"B", "e", "a", "r", "d", " ">>,   \* "Beard "
  <<"r", "e", "c", "e", "d", "i", "n", "g", " ">>,   \* "receding "
  <<"M", "A", "N", "D", "I", "B", "L", "E">>,   \* "MANDIBLE"
  <<"n", "e", "c", "k">> }   \* "neck"

RECURSIVE Concat(_)
Concat(fs) == IF fs = <<>> THEN <<>> ELSE Head(fs) \o Concat(Tail(fs))

ExplainInputs ==
  {Concat(fs) : fs \in UNION {[1..n -> Fragments] : n \in 0..MaxFragments}}

ExplainCalls == {[op |-> "call", fn |-> "explain", concern |-> c] : c \in ExplainInputs}


\* ---- formatRelativeTime

MaxSkew == 1          \* how far around each band limit the differences go

minute == 60 * 1000
hour   == 60 * minute
day    == 24 * hour
week   == 7 * day

\* The strings formatRelativeTime builds: a fixed text, `${n} ${unit}${s} ago`,
\* or toLocaleDateString of the timestamp (month and day).
Text(t) == [kind |-> "text", text |-> t]
Ago(n, unit, s) == [kind |-> "ago", n |-> n, unit |-> unit, s |-> s]
LocaleDate(timestamp) == [kind |-> "date", of |-> timestamp]

\* Mutant of formatRelativeTime: the bands are closed at their upper limit
\* (<= for <).
formatRelativeTime_ClosedAbove(timestamp, t) ==
  LET diff == t - timestamp
  IN IF diff <= minute THEN Text("Just now")
     ELSE IF diff <= hour
     THEN LET mins == diff \div minute
          IN Ago(mins, "minute", IF mins > 1 THEN "s" ELSE "")
     ELSE IF diff <= day
     THEN LET hours == diff \div hour
          IN Ago(hours, "hour", IF hours > 1 THEN "s" ELSE "")
     ELSE IF diff <= 2 * day THEN Text("Yesterday")
     ELSE IF diff <= week
     THEN LET days == diff \div day
          IN Ago(days, "day", "s")
     ELSE LocaleDate(timestamp)

\* formatRelativeTime(timestamp), t being what Date.now() returns.
formatRelativeTime(timestamp, t) ==
  LET diff == t - timestamp
  IN IF diff < minute THEN Text("Just now")
     ELSE IF diff < hour
     THEN LET mins == diff \div minute
          IN Ago(mins, "minute", IF mins > 1 THEN "s" ELSE "")
     ELSE IF diff < day
     THEN LET hours == diff \div hour
          IN Ago(hours, "hour", IF hours > 1 THEN "s" ELSE "")
     ELSE IF diff < 2 * day THEN Text("Yesterday")
     ELSE IF diff < week
     THEN LET days == diff \div day
          IN Ago(days, "day", "s")
     ELSE LocaleDate(timestamp)

\* Inputs of format: the clock reads two weeks' worth of milliseconds, the
\* timestamp lies around it by a band limit, a multiple of a unit or the
\* middle of a band, give or take MaxSkew (timestamps ahead of the clock
\* included).
FormatNow == 2 * week
FormatDiffs ==
  {b + d : b \in {0, minute, 2 * minute, 59 * minute, hour, 2 * hour, 23 * hour,
                  day, day + 12 * hour, 2 * day, 3 * day, 6 * day, week},
           d \in (0 - MaxSkew)..MaxSkew}

FormatCalls ==
  {[op |-> "call", fn |-> "format", now |-> FormatNow, timestamp |-> FormatNow - d] :
     d \in FormatDiffs}

\* ---- createThumbnail: the crop it draws

MaxDim == 5           \* small widths and heights of the source image

\* The side of the thumbnail canvas.
size == 60

\* n / 2 in JavaScript: a number that need not be whole.
Half(n) == [num |-> n, den |-> 2]

\* Mutant of createThumbnailCrop: the square is taken from the top left
\* corner.
createThumbnailCrop_TopLeft(width, height) ==
  LET minDim == Min(width, height)
  IN [canvasWidth |-> size, canvasHeight |-> size,
      sx |-> Half(0), sy |-> Half(0), sWidth |-> minDim, sHeight |-> minDim,
      dx |-> 0, dy |-> 0, dWidth |-> size, dHeight |-> size]

\* img.onload for an image of width by height: the canvas and the arguments
\* of ctx.drawImage(img, sx, sy, minDim, minDim, 0, 0, size, size).
createThumbnailCrop(width, height) ==
  LET minDim == Min(width, height)
  IN [canvasWidth |-> size, canvasHeight |-> size,
      sx |-> Half(width - minDim), sy |-> Half(height - minDim),
      sWidth |-> minDim, sHeight |-> minDim,
      dx |-> 0, dy |-> 0, dWidth |-> size, dHeight |-> size]

\* Inputs of the crop: small images of every shape, and a camera's.
Dimensions == (1..MaxDim) \cup {3000, 4000}

CropCalls ==
  {[op |-> "call", fn |-> "crop", width |-> w, height |-> h] :
     w \in Dimensions, h \in Dimensions}

\* ---- getResultsText and the Recommendations section of ResultsDisplay.
\* The copied text is kept as the sequence of its lines (lines.join("\n")
\* puts one line feed between them); a line is the tuple of the pieces of
\* its template literal, numbers in their decimal writing.

\* What an entry of compose has when it is one of the Recommendation
\* records; a value found on Object.prototype has no title and no actions.
IsRecord(rec) == "actions" \in DOMAIN rec

\* recommendations.forEach((rec, index) => ...), from index on (1-based).
\* The bullet of the source (U+2022) is written * here.
RECURSIVE RecommendationLines(_, _)
RecommendationLines(recs, index) ==
  IF index > Len(recs) THEN <<>>
  ELSE (IF index > 1 THEN << <<"">> >> ELSE <<>>)
       \o << <<recs[index].title, ":">> >>
       \o [j \in 1..Len(recs[index].actions) |-> <<"  * ", recs[index].actions[j]>>]
       \o RecommendationLines(recs, index + 1)

\* getResultsText(), result being the prop and stamp what formatTimestamp
\* gave. rec.actions.forEach throws a TypeError when rec has no actions.
getResultsText(res, stamp) ==
  LET recs == getAllRecommendations(res.concerns, res.risk_category) IN
  IF Len(res.concerns) > 0 /\ \E i \in 1..Len(recs) : ~IsRecord(recs[i])
  THEN [threw |-> TRUE, lines |-> <<>>]
  ELSE [threw |-> FALSE,
        lines |->
          << <<"INTUBATION DIFFICULTY ASSESSMENT">>,
             <<"Assessment Date: ", stamp>>,
             <<"">>,
             <<"Difficulty Score: ", ToString(res.score), "/100">>,
             <<"Risk Category: ", res.risk_category>>,
             <<"Images Analyzed: ", ToString(res.images_analyzed)>> >>
          \o (IF Len(res.concerns) > 0
              THEN << <<"">>, <<"Identified Concerns:">> >>
                   \o [i \in 1..Len(res.concerns) |-> <<"  - ", res.concerns[i]>>]
                   \o << <<"">>, <<"Clinical Recommendations:">> >>
                   \o RecommendationLines(recs, 1)
              ELSE <<>>)
          \o << <<"">>, <<"---">>,
                <<"This assessment is for clinical decision support only.">> >>]

\* The Recommendations component: one card per entry of compose, with the
\* entry's title and actions; rec.actions.map throws when rec has none.
Recommendations(concerns, riskCategory) ==
  LET recs == getAllRecommendations(concerns, riskCategory) IN
  IF \E i \in 1..Len(recs) : ~IsRecord(recs[i])
  THEN [threw |-> TRUE, shown |-> FALSE, cards |-> <<>>]
  ELSE [threw |-> FALSE, shown |-> TRUE,
        cards |-> [i \in 1..Len(recs) |->
                    [title |-> recs[i].title, actions |-> recs[i].actions]]]

\* ResultsDisplay renders the component when the result has concerns.
RecommendationsSection(res) ==
  IF Len(res.concerns) > 0
  THEN Recommendations(res.concerns, res.risk_category)
  ELSE [threw |-> FALSE, shown |-> FALSE, cards |-> <<>>]

\* Results given to ResultsDisplay, and what formatTimestamp made of the
\* assessment date.
DisplayResults ==
  {[score |-> 68, risk_category |-> r, concerns |-> cs, images_analyzed |-> 3] :
     r \in RiskCategories, cs \in ConcernSeqs}
Stamps == {"Nov 1, 2026 at 5:47 AM"}

ReportCalls ==
  {[op |-> "call", fn |-> f, result |-> res, stamp |-> st] :
     f \in {"text", "section"}, res \in DisplayResults, st \in Stamps}

ViewCalls ==
  ComposeCalls \cup ExplainCalls \cup FormatCalls \cup CropCalls \cup ReportCalls

InitView ==
  /\ now = 1
  /\ storage = StorageNull
  /\ history = Arr(<<>>)
  /\ mounted = TRUE
  /\ crashed = FALSE
  /\ images = <<>>
  /\ result = Null
  /\ isLoading = FALSE
  /\ error = NoError
  /\ viewingHistory = Null
  /\ addHistory = <<>>
  /\ pc = "idle"
  /\ runImages = <<>>
  /\ runHistory = <<>>
  /\ data = Null
  /\ analyses = 0
  /\ removed = {}
  /\ saved = {}
  /\ resetInFlight = FALSE
  /\ submitted = Null
  /\ last \in ViewCalls

\* getAllRecommendations(concerns, riskCategory) is applied.
Compose ==
  /\ last.op = "call" /\ last.fn = "compose"
  /\ last' = [op |-> "return", fn |-> "compose", concerns |-> last.concerns,
              riskCategory |-> last.riskCategory,
              out |-> getAllRecommendations(last.concerns, last.riskCategory)]
  /\ UNCHANGED <<storeVars, appVars>>

\* getExplanation(concern) is applied.
Explain ==
  /\ last.op = "call" /\ last.fn = "explain"
  /\ last' = [op |-> "return", fn |-> "explain", concern |-> last.concern,
              keyword |-> getExplanation(last.concern).keyword,
              out |-> getExplanation(last.concern).value]
  /\ UNCHANGED <<storeVars, appVars>>

\* formatRelativeTime(timestamp) is applied.
Format ==
  /\ last.op = "call" /\ last.fn = "format"
  /\ last' = [op |-> "return", fn |-> "format", now |-> last.now,
              timestamp |-> last.timestamp,
              out |-> formatRelativeTime(last.timestamp, last.now)]
  /\ UNCHANGED <<storeVars, appVars>>

\* The image of createThumbnail has loaded and is drawn.
Crop ==
  /\ last.op = "call" /\ last.fn = "crop"
  /\ last' = [op |-> "return", fn |-> "crop", width |-> last.width,
              height |-> last.height,
              out |-> createThumbnailCrop(last.width, last.height)]
  /\ UNCHANGED <<storeVars, appVars>>

\* handleCopyResults evaluates getResultsText().
CopyText ==
  /\ last.op = "call" /\ last.fn = "text"
  /\ last' = [op |-> "return", fn |-> "text", result |-> last.result,
              stamp |-> last.stamp,
              out |-> getResultsText(last.result, last.stamp)]
  /\ UNCHANGED <<storeVars, appVars>>

\* ResultsDisplay renders its Recommendations section.
RenderSection ==
  /\ last.op = "call" /\ last.fn = "section"
  /\ last' = [op |-> "return", fn |-> "section", result |-> last.result,
              stamp |-> last.stamp,
              out |-> RecommendationsSection(last.result)]
  /\ UNCHANGED <<storeVars, appVars>>

NextView == Compose \/ Explain \/ Format \/ Crop \/ CopyText \/ RenderSection

SpecView == InitView /\ [][NextView]_vars

\* ------------------------------------------------------------- SpecClock
\* The hook under the clock of the machine: Date.now() is wall-clock time,
\* which the user or the time service can set to any reading, back as well
\* as forth, between two calls.

MaxStamped == 2       \* items the history holds in SpecClock

ClockAdd ==
  \E rnd \in Rands, res \in StoreResults, thumb \in StoreThumbs, writeOk \in BOOLEAN :
    /\ Len(history.items) < MaxStamped
    /\ StoreAddOp(rnd, res, thumb, writeOk)

\* The clock is set.
ClockSet ==
  \E t \in 1..MaxTime :
    /\ t # now
    /\ now' = t
    /\ UNCHANGED <<storage, history, appVars, last>>

NextClock == ClockAdd \/ StoreDelete \/ StoreClear \/ StoreReload \/ ClockSet

SpecClock == InitStore /\ [][NextClock]_vars

\* ------------------------------------------------- claims under SpecStore

\* What saveHistory leaves in localStorage for the items s.
Persisted(s) == StorageJSON(Arr([i \in 1..Len(s) |-> StringifyItem(s[i])]))

\* The items of h whose id is not id, in the order of h.
Without(h, id) == SelectSeq(h, LAMBDA it : it.id # id)

\* C1: in every state reached from the empty store by add, delete and clear,
\* the history in memory and the persisted record hold at most
\* MAX_HISTORY_ITEMS items.
C1_CapacityBound ==
  /\ Len(history.items) <= MAX_HISTORY_ITEMS
  /\ storage.kind = "json" => Len(storage.value.items) <= MAX_HISTORY_ITEMS

\* C1 witness: an add has gone through on a full history.
C1_Witness ==
  /\ last.op = "add" /\ last.ok /\ last.full
  /\ Len(history.items) = MAX_HISTORY_ITEMS
  /\ storage.kind = "json" /\ Len(storage.value.items) = MAX_HISTORY_ITEMS

\* C2: an add that goes through on the collection h leaves the new item
\* followed by the first MAX_HISTORY_ITEMS - 1 items of h, in their order: the
\* new item is at index 0, and of a full h exactly the last item is dropped.
C2_AddEffect ==
  [][\A rnd \in Rands, res \in StoreResults, thumb \in StoreThumbs :
       StoreAddOp(rnd, res, thumb, TRUE) =>
         LET h  == history.items
             h2 == history'.items
             keep == Min(Len(h), MAX_HISTORY_ITEMS - 1)
         IN /\ Len(h2) = keep + 1
            /\ h2[1].id = MakeId(now, rnd)
            /\ h2[1].score = res.score
            /\ \A i \in 1..keep : h2[i + 1] = h[i]
            /\ storage' = Persisted(h2)
            /\ ~last'.threw /\ last'.ret = h2[1].id
    ]_vars

\* C2 witness: the eleventh item has been added to ten, and it is not the
\* item that was at index 0 before.
C2_Witness ==
  /\ last.op = "add" /\ last.ok /\ last.full
  /\ Len(history.items) = MAX_HISTORY_ITEMS
  /\ history.items[1].id # history.items[2].id

\* C3 as stated: when the storage write of an add fails, add does not throw,
\* returns the new id, and the collection in memory has the new item at
\* index 0.
C3_MemoryUpdatedOnFailedWrite ==
  [][\A rnd \in Rands, res \in StoreResults, thumb \in StoreThumbs :
       StoreAddOp(rnd, res, thumb, FALSE) =>
         /\ ~last'.threw /\ last'.ret = MakeId(now, rnd)
         /\ history'.items # <<>>
         /\ history'.items[1].id = MakeId(now, rnd)
         /\ Len(history'.items) = Min(Len(history.items) + 1, MAX_HISTORY_ITEMS)
    ]_vars

\* C3 as amended: when the storage write of an add fails, add does not
\* throw and returns the new id, and neither the collection in memory nor
\* the persisted record changes.
C3_FailedWriteChangesNothing ==
  [][\A rnd \in Rands, res \in StoreResults, thumb \in StoreThumbs :
       StoreAddOp(rnd, res, thumb, FALSE) =>
         /\ ~last'.threw /\ last'.ret = MakeId(now, rnd)
         /\ history' = history
         /\ storage' = storage
    ]_vars

\* C3 witness: the write of an add has failed on a history that holds items.
C3_Witness ==
  last.op = "add" /\ ~last.ok /\ ~last.threw /\ history.items # <<>>

\* C6 as stated: delete(id) leaves exactly the items whose id is not id, in
\* their order, and persists them when it removed something; nothing is
\* thrown.
C6_DeleteRemovesAndPersists ==
  [][\A id \in Ids(history.items) \cup {AbsentId}, writeOk \in BOOLEAN :
       StoreDeleteOp(id, writeOk) =>
         /\ ~last'.threw
         /\ history'.items = Without(history.items, id)
         /\ id \in Ids(history.items) => storage' = Persisted(history'.items)
    ]_vars

\* C6 as amended: a delete(id) whose storage write goes through leaves exactly
\* the items whose id is not id, in their order, in memory and in the
\* record; one whose write fails changes neither; nothing is thrown.
C6_DeleteEffect ==
  [][\A id \in Ids(history.items) \cup {AbsentId}, writeOk \in BOOLEAN :
       StoreDeleteOp(id, writeOk) =>
         /\ ~last'.threw
         /\ writeOk => /\ history'.items = Without(history.items, id)
                       /\ storage' = Persisted(history'.items)
         /\ ~writeOk => history' = history /\ storage' = storage
         /\ id \notin Ids(history.items) => history'.items = history.items
    ]_vars

\* C6 witness: a delete has removed an item and left others.
C6_Witness ==
  last.op = "delete" /\ last.ok /\ last.hit /\ history.items # <<>>

\* C7 as stated: a load in a new session that follows a clear finds an empty
\* collection.
C7_ClearThenLoadIsEmpty ==
  (last.op = "load" /\ last.after = "clear") => history.items = <<>>

\* C7 as amended: a load in a new session that follows a clear whose storage
\* write went through finds an empty collection.
C7_WrittenClearThenLoadIsEmpty ==
  (last.op = "load" /\ last.after = "clear" /\ last.afterOk) =>
    history = Arr(<<>>)

\* C7 witness: a collection that held items was cleared and then loaded.
C7_Witness ==
  /\ last.op = "load" /\ last.after = "clear" /\ last.afterOk /\ last.afterHad
  /\ history.items = <<>>

\* C9: no two items of the collection share an id.
C9_UniqueIds ==
  \A i, j \in 1..Len(history.items) :
    i # j => history.items[i].id # history.items[j].id

\* ------------------------------------------------------ claims under Spec

\* C4: an item removed by delete, clear or eviction is never again in the
\* collection in memory nor in the persisted record.
C4_RemovalIsFinal ==
  \A id \in removed :
    /\ id \notin Ids(history.items)
    /\ storage.kind = "json" => id \notin Ids(storage.value.items)

\* C5: when handleReset has run since the analysis was submitted, the
\* arrival of the response leaves the displayed result as it is.
C5_ResetDiscardsResponse ==
  [][(pc = "fetch" /\ resetInFlight /\ FetchOk) => result' = result]_vars

\* C8: the load never throws, and when the record is absent or is no JSON
\* the collection in memory after the load is empty.
C8_LoadEmptyOnBadRecord ==
  [][(Mount \/ Reload) =>
       /\ ~last'.threw
       /\ storage.kind \in {"null", "empty", "garbage"} => history' = Arr(<<>>)
       /\ storage.kind \in {"null", "empty", "garbage"} => ~crashed'
    ]_vars

\* C8 witness: the session has started on a record that is no JSON.
C8_Witness ==
  /\ mounted /\ ~crashed
  /\ last.op \in {"mount", "reload"} /\ ~last.threw
  /\ storage.kind = "garbage"
  /\ history = Arr(<<>>)

\* What the settling of createThumbnail leaves when the write of the add it
\* makes goes through: one new item, of the response and with thumbnail
\* thumb, in front of the history that this addAssessment holds.
OneItemAdded(thumb, rnd) ==
  /\ history'.items # <<>>
  /\ history'.items[1].id = MakeId(now, rnd)
  /\ Thumbnail(history'.items[1]) = thumb
  /\ ResultOf(history'.items[1]) = data
  /\ Len(history'.items) = Min(Len(runHistory) + 1, MAX_HISTORY_ITEMS)
  /\ \A i \in 2..Len(history'.items) : history'.items[i] = runHistory[i - 1]

\* C10 as stated: for every response exactly one item is added, with the
\* thumbnail when createThumbnail resolves and without when it rejects; a
\* rejection sets no error and leaves the displayed result.
C10_AlwaysOneItemAdded ==
  [][\A rnd \in Rands, writeOk \in BOOLEAN :
       /\ ThumbResolveOp(rnd, writeOk) =>
            OneItemAdded(ThumbnailOf(runImages[1]), rnd)
       /\ ThumbRejectOp(rnd, writeOk) =>
            /\ OneItemAdded(Undefined, rnd)
            /\ error' = error /\ result' = result
    ]_vars

\* C10 as amended: the same when the storage write of the add goes through;
\* when it fails no item is added; in both cases a rejection sets no error
\* and leaves the displayed result.
C10_ThumbnailFailureNonFatal ==
  [][\A rnd \in Rands, writeOk \in BOOLEAN :
       /\ ThumbResolveOp(rnd, writeOk) =>
            IF writeOk THEN OneItemAdded(ThumbnailOf(runImages[1]), rnd)
            ELSE history' = history /\ storage' = storage
       /\ ThumbRejectOp(rnd, writeOk) =>
            /\ IF writeOk THEN OneItemAdded(Undefined, rnd)
               ELSE history' = history /\ storage' = storage
            /\ error' = error /\ result' = result
            /\ ~isLoading'
    ]_vars

\* C10 witness: createThumbnail has rejected and the item is saved without
\* a thumbnail, the result still displayed and no error set.
C10_Witness ==
  /\ last.op = "thumbReject" /\ last.ok
  /\ history.items # <<>>
  /\ Thumbnail(history.items[1]) = Undefined
  /\ result \in Results
  /\ error = NoError
  /\ ~isLoading

\* C11: when the request fails and the user has done nothing since the
\* submission, the App is as it was before the submission except that an
\* error message is set: images, result, history and record are those of
\* before, and isLoading is false again.
C11_FailureKeepsInput ==
  [][(FetchFail /\ submitted # Null) =>
       /\ error' \in FetchErrors /\ error' # NoError
       /\ images' = submitted.images
       /\ result' = submitted.result
       /\ viewingHistory' = submitted.viewingHistory
       /\ history' = submitted.history
       /\ storage' = submitted.storage
       /\ isLoading' = submitted.isLoading /\ ~isLoading'
    ]_vars

\* C11 witness: a request has failed, the images are still selected and the
\* upload section is shown again with the error.
C11_Witness ==
  /\ pc = "idle" /\ analyses > 0
  /\ error \in FetchErrors
  /\ images # <<>>
  /\ result = Null
  /\ ~isLoading
  /\ history.items # <<>>

\* ------------------------------------------------ claims under SpecView

Composed == last.op = "return" /\ last.fn = "compose"

\* The number of positions of cs that hold a canonical label.
RECURSIVE CanonicalCount(_)
CanonicalCount(cs) ==
  IF cs = <<>> THEN 0
  ELSE (IF Head(cs) \in CanonicalLabels THEN 1 ELSE 0) + CanonicalCount(Tail(cs))

\* The canonical labels of cs, in its order and with its repetitions.
CanonicalOnly(cs) == SelectSeq(cs, LAMBDA c : c \in CanonicalLabels)

\* C12: compose([], r) is exactly the general template of r, of priority low
\* for Easy, medium for Moderate and high for Difficult; for any concerns the
\* entry at position 0 is that template.
C12_GeneralTemplateFirst ==
  Composed =>
    LET r == last.riskCategory
        g == last.out[1]
    IN /\ Len(last.out) >= 1
       /\ g = getGeneralRecommendations(r)
       /\ r = "Easy" => g.priority = "low" /\ g.title = "Standard Airway Management"
       /\ r = "Moderate" => g.priority = "medium" /\ g.title = "Enhanced Airway Preparation"
       /\ r = "Difficult" => g.priority = "high" /\ g.title = "High-Risk Airway Protocol"
       /\ last.concerns = <<>> => Len(last.out) = 1

\* C12 witness: compose([], "Moderate") has returned its one entry.
C12_Witness ==
  /\ Composed /\ last.concerns = <<>> /\ last.riskCategory = "Moderate"
  /\ Len(last.out) = 1 /\ last.out[1].priority = "medium"

\* C13: compose returns the general entry followed by one specific entry per
\* occurrence of a canonical label, in input order and without
\* deduplication: 1 plus the number of positions holding a canonical label.
C13_OnePerOccurrence ==
  Composed =>
    LET labels == CanonicalOnly(last.concerns)
    IN /\ Len(last.out) = 1 + CanonicalCount(last.concerns)
       /\ last.out[1] = getGeneralRecommendations(last.riskCategory)
       /\ \A i \in 1..Len(labels) :
            i + 1 <= Len(last.out) =>
              last.out[i + 1] = concernToRecommendations[labels[i]]

\* C14: a concern that is not exactly one of the nine canonical labels
\* appends no entry: every entry after the general one is an entry of the
\* recommendation table, and there are as many as canonical labels.
C14_UnmatchedAppendsNothing ==
  Composed =>
    /\ \A i \in 2..Len(last.out) :
         \E c \in CanonicalLabels : last.out[i] = concernToRecommendations[c]
    /\ (\A i \in 1..Len(last.concerns) : last.concerns[i] \notin CanonicalLabels)
         => Len(last.out) = 1

Explained == last.op = "return" /\ last.fn = "explain"

\* The entries whose keyword is a substring of the lower-cased concern c.
Matching(c) ==
  {i \in 1..Len(CONCERN_EXPLANATIONS) :
     includes(toLowerCase(c), CONCERN_EXPLANATIONS[i].keyword)}

\* "Limited neck extension observed"
NeckConcern ==
  <<"L", "i", "m", "i", "t", "e", "d", " ", "n", "e", "c", "k", " ", "e", "x",
    "t", "e", "n", "s", "i", "o", "n", " ", "o", "b", "s", "e", "r", "v", "e", "d">>

NeckExplanation ==
  "Reduced ability to tilt head back limits optimal positioning for intubation"

\* C15: explain returns, for every concern, the explanation of the earliest
\* entry of the table whose keyword is a substring of the lower-cased
\* concern, and the fallback text exactly when there is none (the empty
\* string included); it never returns null.
C15_EarliestKeywordOrFallback ==
  Explained =>
    LET M == Matching(last.concern)
    IN /\ M # {} => \E i \in M : /\ \A j \in M : i <= j
                                 /\ last.out = CONCERN_EXPLANATIONS[i].explanation
       /\ M = {} <=> last.out = FallbackExplanation
       /\ last.out \in {CONCERN_EXPLANATIONS[i].explanation :
                          i \in 1..Len(CONCERN_EXPLANATIONS)} \cup {FallbackExplanation}

\* C15 witness: "beard" comes first in the concern, "limited neck" first in
\* the table, and it is the explanation of "limited neck" that is returned.
C15_Witness ==
  /\ Explained
  /\ {9, 16} \subseteq Matching(last.concern)
  /\ SubSeq(last.concern, 1, 5) = <<"B", "e", "a", "r", "d">>
  /\ last.out = CONCERN_EXPLANATIONS[9].explanation
  /\ last.out # CONCERN_EXPLANATIONS[16].explanation

\* C16 as stated: explain("Limited neck extension observed") returns at the
\* keyword "limited neck", with the neck-extension text.
C16_ResolvedByLimitedNeck ==
  (Explained /\ last.concern = NeckConcern) =>
    /\ last.keyword = <<"l", "i", "m", "i", "t", "e", "d", " ", "n", "e", "c", "k">>
    /\ last.out = NeckExplanation

\* C16 as amended: explain("Limited neck extension observed") returns at the
\* keyword "neck extension", which the table declares before "limited neck",
\* with the neck-extension text.
C16_ResolvedByNeckExtension ==
  (Explained /\ last.concern = NeckConcern) =>
    /\ last.keyword = <<"n", "e", "c", "k", " ", "e", "x", "t", "e", "n", "s", "i", "o", "n">>
    /\ last.out = NeckExplanation

\* C16 witness: explain has returned for that concern.
C16_Witness ==
  /\ Explained /\ last.concern = NeckConcern
  /\ last.out = NeckExplanation

Formatted == last.op = "return" /\ last.fn = "format"

\* C17: with diff = now - timestamp, format gives "Just now" below 60000,
\* N minute(s) ago with N = floor(diff / 60000) below 3600000, N hour(s) ago
\* with N = floor(diff / 3600000) below 86400000, "Yesterday" below
\* 172800000, N days ago below 604800000 and the date from there on; every
\* band is closed at its lower limit, N is never 0 and the unit is singular
\* exactly when N = 1.
C17_RelativeTimeBands ==
  Formatted =>
    LET diff == last.now - last.timestamp
        out  == last.out
    IN /\ diff < 60000 => out = Text("Just now")
       /\ (60000 <= diff /\ diff < 3600000) =>
            /\ out.kind = "ago" /\ out.unit = "minute" /\ out.n = diff \div 60000
       /\ (3600000 <= diff /\ diff < 86400000) =>
            /\ out.kind = "ago" /\ out.unit = "hour" /\ out.n = diff \div 3600000
       /\ (86400000 <= diff /\ diff < 172800000) => out = Text("Yesterday")
       /\ (172800000 <= diff /\ diff < 604800000) =>
            /\ out.kind = "ago" /\ out.unit = "day" /\ out.n = diff \div 86400000
       /\ 604800000 <= diff => out = LocaleDate(last.timestamp)
       /\ out.kind = "ago" => /\ out.n >= 1
                              /\ (out.s = "") <=> (out.n = 1)
                              /\ out.s \in {"", "s"}
       /\ diff = 59999 => out = Text("Just now")
       /\ diff = 60000 => out = Ago(1, "minute", "")
       /\ diff = 3599999 => out = Ago(59, "minute", "s")
       /\ diff = 3600000 => out = Ago(1, "hour", "")

\* C17 witness: exactly one minute has passed and "1 minute ago" is returned.
C17_Witness ==
  /\ Formatted
  /\ last.now - last.timestamp = 60000
  /\ last.out = Ago(1, "minute", "")

Cropped == last.op = "return" /\ last.fn = "crop"

\* C18: for a source of w by h the crop is the square of side min(w, h) with
\* origin ((w - side) / 2, (h - side) / 2); it lies inside the image, with
\* equal margins on both sides of the longer axis and none on the shorter,
\* and is drawn onto 60 by 60; 4000 by 3000 gives the 3000 by 3000 region at
\* (500, 0).  (sx and sy are counted in half pixels: num / 2.)
C18_CenteredSquareCrop ==
  Cropped =>
    LET w    == last.width
        h    == last.height
        c    == last.out
        side == IF w <= h THEN w ELSE h
        left   == c.sx.num                    \* twice the margins
        right  == 2 * w - 2 * c.sWidth - c.sx.num
        top    == c.sy.num
        bottom == 2 * h - 2 * c.sHeight - c.sy.num
    IN /\ c.sWidth = side /\ c.sHeight = side
       /\ c.sx.den = 2 /\ c.sy.den = 2
       /\ c.sx.num = w - side /\ c.sy.num = h - side
       /\ left >= 0 /\ right >= 0 /\ top >= 0 /\ bottom >= 0
       /\ left = right /\ top = bottom
       /\ w <= h => left = 0
       /\ h <= w => top = 0
       /\ c.canvasWidth = 60 /\ c.canvasHeight = 60
       /\ c.dx = 0 /\ c.dy = 0 /\ c.dWidth = 60 /\ c.dHeight = 60
       /\ (w = 4000 /\ h = 3000) =>
            /\ c.sWidth = 3000 /\ c.sHeight = 3000
            /\ c.sx.num = 2 * 500 /\ c.sy.num = 0

\* C18 witness: a 4000 by 3000 image has been cropped.
C18_Witness ==
  /\ Cropped /\ last.width = 4000 /\ last.height = 3000
  /\ last.out.sWidth = 3000 /\ last.out.sx = Half(1000)

TextReturned == last.op = "return" /\ last.fn = "text"
SectionReturned == last.op = "return" /\ last.fn = "section"

\* Where the heading of the recommendations stands in the text.
HeadingAt(lines) ==
  {i \in 1..Len(lines) : lines[i] = <<"Clinical Recommendations:">>}

\* Lines taken by the entries before entry i, each with its title, its
\* actions and the empty line after it.
RECURSIVE LinesBefore(_, _)
LinesBefore(recs, i) ==
  IF i = 1 THEN 0
  ELSE LinesBefore(recs, i - 1) + Len(recs[i - 1].actions) + 2

\* The lines after line h are the entries of recs in order, each as its
\* title and then its actions, one empty line between two entries, and the
\* three closing lines follow.
ListsEntries(lines, h, recs) ==
  /\ Len(lines) = h + LinesBefore(recs, Len(recs) + 1) - 1 + 3
  /\ \A i \in 1..Len(recs) :
       /\ i > 1 => lines[h + LinesBefore(recs, i)] = <<"">>
       /\ lines[h + LinesBefore(recs, i) + 1] = <<recs[i].title, ":">>
       /\ \A j \in 1..Len(recs[i].actions) :
            lines[h + LinesBefore(recs, i) + 1 + j] = <<"  * ", recs[i].actions[j]>>

\* C28: in the results view and in the copied text the recommendations
\* (the general entry included) appear exactly when the result has at
\* least one concern; when they appear, the copied text lists the title and
\* the actions of every entry of compose in compose order, the general
\* entry first, and the view has one card per entry.
C28_RecommendationsWhenConcerns ==
  LET res == last.result
      recs == getAllRecommendations(res.concerns, res.risk_category)
  IN /\ TextReturned =>
          /\ ~last.out.threw
          /\ (HeadingAt(last.out.lines) # {}) <=> (Len(res.concerns) > 0)
          /\ Len(res.concerns) > 0 =>
               /\ Cardinality(HeadingAt(last.out.lines)) = 1
               /\ recs[1] = getGeneralRecommendations(res.risk_category)
               /\ \A h \in HeadingAt(last.out.lines) :
                    ListsEntries(last.out.lines, h, recs)
     /\ SectionReturned =>
          /\ ~last.out.threw
          /\ last.out.shown <=> (Len(res.concerns) > 0)
          /\ last.out.shown =>
               /\ Len(last.out.cards) = Len(recs)
               /\ \A i \in 1..Len(recs) :
                    /\ last.out.cards[i].title = recs[i].title
                    /\ last.out.cards[i].actions = recs[i].actions

\* ---------------------------------------- more claims under Spec

\* The four fields of an AnalysisResult are those of res.
SameFields(x, res) ==
  /\ x.score = res.score
  /\ x.risk_category = res.risk_category
  /\ x.concerns = res.concerns
  /\ x.images_analyzed = res.images_analyzed

\* The add of handleAnalyze has stored the response as it was given, in
\* memory and in the record.
StoredAsGiven(rnd) ==
  /\ history'.items # <<>>
  /\ history'.items[1].id = MakeId(now, rnd)
  /\ SameFields(history'.items[1], data)
  /\ storage'.kind = "json" /\ storage'.value.items # <<>>
  /\ SameFields(storage'.value.items[1], data)

\* C19 as stated: add validates nothing and rejects nothing: for every
\* result, one whose score is outside 1..100 or whose category does not
\* match included, it stores the four fields exactly as given.
C19_AlwaysStoredAsGiven ==
  [][\A rnd \in Rands, writeOk \in BOOLEAN :
       (ThumbResolveOp(rnd, writeOk) \/ ThumbRejectOp(rnd, writeOk)) =>
         StoredAsGiven(rnd)
    ]_vars

\* C19 as amended: add validates nothing: when its storage write goes
\* through it stores the four fields of any result exactly as given; when
\* the write fails it stores nothing, whatever the result.
C19_StoredAsGivenWhenWritten ==
  [][\A rnd \in Rands, writeOk \in BOOLEAN :
       (ThumbResolveOp(rnd, writeOk) \/ ThumbRejectOp(rnd, writeOk)) =>
         IF writeOk THEN StoredAsGiven(rnd)
         ELSE history' = history /\ storage' = storage
    ]_vars

\* C19 witness: a result of score 150 and category Easy is stored as such.
C19_Witness ==
  /\ last.op \in {"thumbResolve", "thumbReject"} /\ last.ok
  /\ history.items # <<>>
  /\ history.items[1].score = 150 /\ history.items[1].risk_category = "Easy"
  /\ storage.kind = "json" /\ storage.value.items # <<>>
  /\ storage.value.items[1].score = 150

\* C20: selecting an item that add saved and that is still there sets the
\* displayed result to the four fields of the result add was given, clears
\* the selected images and the error, and leaves the history as it is.
C20_RetrievalRoundTrip ==
  [][SelectHistoryItem =>
       /\ \A s \in saved :
            s.item = StringifyItem(viewingHistory') =>
              /\ SameFields(result', s.r)
              /\ DOMAIN result' = {"score", "risk_category", "concerns", "images_analyzed"}
       /\ \E i \in 1..Len(history.items) : viewingHistory' = history.items[i]
       /\ images' = <<>>
       /\ error' = NoError
       /\ history' = history /\ storage' = storage
    ]_vars

\* C20 witness: an item saved by add of this session is displayed again,
\* another item being in the history with it.
C20_Witness ==
  /\ viewingHistory # Null
  /\ \E s \in saved : s.item = StringifyItem(viewingHistory) /\ result = s.r
  /\ Len(history.items) > 1
  /\ images = <<>> /\ error = NoError

\* The items of the sequence h, as JSON.stringify writes them (an item
\* without thumbnail is the same with and without the key).
ItemsOf(h) == {StringifyItem(h[i]) : i \in 1..Len(h)}

\* The items that exist: in the history, in the record, in the histories
\* that the callbacks in use have closed over.
ItemsAround ==
  ItemsOf(history.items) \cup ItemsOf(addHistory) \cup ItemsOf(runHistory)
    \cup (IF storage.kind = "json" THEN ItemsOf(storage.value.items) ELSE {})

\* The items that the add of the running handleAnalyze can create.
ItemsCreated ==
  IF pc = "thumb"
  THEN {StringifyItem(NewItem(now, rnd, data, thumb)) :
          rnd \in Rands, thumb \in {Undefined, ThumbnailOf(runImages[1])}}
  ELSE {}

\* C21: items are immutable: whatever the operation (add, delete, clear,
\* select, load), every item of the collection after it is, with its id,
\* timestamp, score, risk_category, concerns, images_analyzed and thumbnail,
\* an item that existed before it or the item that this add has created;
\* the same holds of the persisted record.
C21_ItemsImmutable ==
  [][\/ UNCHANGED <<history, storage, saved>>
     \/ /\ ItemsOf(history'.items) \subseteq ItemsAround \cup ItemsCreated
        /\ storage'.kind = "json" =>
             ItemsOf(storage'.value.items) \subseteq ItemsAround \cup ItemsCreated
        /\ \A s \in saved' :
             /\ s.item \in ItemsOf(history'.items)
             /\ s \in saved \/ s.item \in ItemsCreated
    ]_vars

\* C21 witness: an item that add created without thumbnail is in the
\* collection, as it was created, after the page has been loaded again.
C21_Witness ==
  /\ last.op = "reload"
  /\ \E s \in saved : /\ "thumbnail" \notin DOMAIN s.item
                      /\ s.item \in ItemsOf(history.items)
                      /\ SameFields(s.item, s.r)

\* C23: once the load has succeeded, between any two operations, whichever
\* storage writes have failed, the persisted record deserializes to exactly
\* the collection in memory (same items, same order): what the load effect
\* of a new session would set is the collection this session holds.
C23_MemoryMatchesRecord ==
  (mounted /\ ~crashed) =>
    LoadEffect(storage, Arr(<<>>)).history = JSONStringify(history.items)

\* C23 witness: a write has failed after others went through, and the
\* record still holds the collection in memory, which is not empty.
C23_Witness ==
  /\ mounted /\ ~crashed
  /\ last.op \in {"delete", "clear", "thumbResolve", "thumbReject"} /\ ~last.ok
  /\ history.items # <<>>
  /\ storage = Persisted(history.items)
  /\ saved # {}

\* C24: whatever the persisted record holds, the history in memory after
\* the load is a list of at most MAX_HISTORY_ITEMS items, and the App renders
\* it.
C24_LoadEstablishesInvariants ==
  mounted =>
    /\ history.type = "array"
    /\ Len(history.items) <= MAX_HISTORY_ITEMS
    /\ ~crashed

\* C25: whenever an item of the history is being viewed and a result is on
\* display (no spinner), the displayed result has that item's score,
\* risk_category, concerns and images_analyzed: a fresh analysis result is
\* never shown with an older item's timestamp and thumbnail.
C25_ResultIsViewedItem ==
  (viewingHistory # Null /\ ~isLoading) =>
    /\ result # Null
    /\ SameFields(result, viewingHistory)

\* ----------------------------------------------- claims under SpecFlight

\* C26: at most one analysis is in flight: isLoading is true exactly while a
\* handleAnalyze is between its submission and the end of its handling
\* (fetch, thumbnail derivation, history add), and the Analyze button is
\* rendered only when none is, so that handleAnalyze starts only then.
C26_OneInFlight ==
  /\ [](isLoading <=> pc # "idle")
  /\ [](AnalyzeShown => (~isLoading /\ pc = "idle"))
  /\ [][FlightAnalyze => (~isLoading /\ pc = "idle")]_vars

\* C26 witness: a second analysis is in flight, the first having finished,
\* and the user has selected a history item meanwhile.
C26_Witness ==
  /\ analyses = 2
  /\ isLoading
  /\ pc = "thumb"
  /\ viewingHistory # Null
  /\ saved # {}

\* ------------------------------------------------- claims under SpecLive

\* C27: every submitted analysis eventually leaves the loading state:
\* whenever isLoading is true it is false at some later point, whether the
\* request succeeds or fails or the thumbnail derivation fails, and whatever
\* the user does meanwhile.
C27_LoadingEnds == isLoading ~> ~isLoading

\* C27 witness: a submission has left the loading state through a rejected
\* thumbnail derivation and a failed write, a history item having been
\* selected meanwhile.
C27_Witness ==
  /\ analyses >= 1
  /\ ~isLoading
  /\ last.op = "thumbReject"
  /\ ~last.ok
  /\ viewingHistory # Null
  /\ result # Null

\* ----------------------------------------------- claims under SpecClock

\* C22: the timestamps of the collection never increase from index 0 to the
\* tail: an item inserted later never carries a smaller timestamp than one
\* inserted earlier.
C22_TimestampsNonIncreasing ==
  \A i, j \in 1..Len(history.items) :
    i < j => history.items[i].timestamp >= history.items[j].timestamp

====
